---- MODULE Spec2Model ----
(***************************************************************************)
(* Model of the webrtc-lab signaling relay (signal/signaling_server.go)    *)
(* and of the negotiation client (client/webrtc_client.go).                *)
(*                                                                         *)
(* Spec       : the relay: sendHandler and receiveHandler goroutines over  *)
(*              the messageStore map, the mutex mu and unbuffered channels *)
(* FairSpec   : Spec with the fairness of the Go scheduler                 *)
(* ClientSpec : one endpoint: main negotiation loop, listenForSignaling    *)
(*              goroutine and the OnICECandidate callback                  *)
(***************************************************************************)
EXTENDS Naturals, Sequences, FiniteSets

\* ----------------------------------------------------------------- bounds
\* number of GET /receive requests the relay serves
MaxHandlers == 2
\* number of POST /send requests the relay serves
MaxSends == 2
\* number of envelopes the endpoint's subscription stream carries
MaxEnvelopes == 3
\* number of candidates the engine of the endpoint discovers
MaxLocalCandidates == 1

\* ------------------------------------------------------ program constants
offerPeerID == "offer-peer-1"
answerPeerID == "answer-peer-1"
StatusOK == 200
StatusNoContent == 204
StatusBadRequest == 400
StatusNotFound == 404

\* --------------------------------------------------------- model values
PeerIds == {offerPeerID, answerPeerID}
\* the identifiers a request can carry: a peer id or the empty string
ReqIds == PeerIds \cup {""}
Handlers == 1 .. MaxHandlers
Senders == 1 .. MaxSends
\* "no channel" (absent map entry) and "no message"
NoChan == 0
NoMsg == 0
\* response status not written yet
NoStatus == 0
Free == 0
Roles == {"offerer", "answerer"}
\* the kinds of envelope: SignalingMessage.Type
Kinds == {"offer", "answer", "candidate", "heartbeat"}
NoEnvelope == [type |-> "", content |-> 0]

VARIABLES
    \* ---- relay (signaling_server.go)
    messageStore,   \* peer id -> channel (channel h is the one handler h made)
    mu,             \* Free, or the sender goroutine holding the mutex
    hPc,            \* receiveHandler h: position
    hId,            \* receiveHandler h: clientID
    hCur,           \* receiveHandler h: msg taken from ch, being encoded
    stream,         \* receiveHandler h: envelopes written to the response
    hStatus,        \* receiveHandler h: response status
    closed,         \* channel h was closed
    sPc,            \* sendHandler s: position
    sTo,            \* sendHandler s: msg.To
    sCh,            \* sendHandler s: channel found by the lookup
    sStatus,        \* sendHandler s: response status
    \* ---- history (observation only)
    sSawEntry,      \* sendHandler s: the directory had an entry at lookup
    sBefore,        \* sendHandler s: delivers answered 200 when s started
    \* ---- endpoint (webrtc_client.go)
    role,           \* *role
    clientID,       \* clientID
    mainPc,         \* main goroutine: position
    cur,            \* main: the envelope read from remoteSignal ("answer")
    offerReceived,
    answerReceived,
    candidateReceivedBeforeOfferOrAnswer,
    replayIdx,      \* main: index of the range loop over the buffer
    localSDP,       \* main: SDP of the offer / answer the engine created
    remoteCandidates,
    localCandidates,
    gathering,      \* engine: "idle", "gathering", "complete"
    listenerPc,     \* listenForSignaling goroutine: position
    pushMsg,        \* listenForSignaling: msg blocked in remoteSignal <- msg
    nDecoded,       \* envelopes decoded from the subscription stream so far
    subscriptions,  \* number of GET /receive calls made
    exited,         \* the process ended (os.Exit, log.Fatalf)
    \* ---- history (observation only)
    events,         \* engine calls and delivers of the endpoint, in order
    received        \* envelopes main read from remoteSignal, in order

relayVars == <<messageStore, mu, hPc, hId, hCur, stream, hStatus, closed,
               sPc, sTo, sCh, sStatus, sSawEntry, sBefore>>

negVars == <<role, clientID, mainPc, cur, offerReceived, answerReceived,
             candidateReceivedBeforeOfferOrAnswer, replayIdx, localSDP,
             remoteCandidates, received>>
listenVars == <<listenerPc, pushMsg, nDecoded, subscriptions>>
cbVars == <<localCandidates, gathering>>
clientVars == <<negVars, listenVars, cbVars, exited, events>>

vars == <<relayVars, clientVars>>

\* ------------------------------------------------------------------ Init
RelayInit ==
    /\ messageStore = [p \in ReqIds |-> NoChan]
    /\ mu = Free
    /\ hPc = [h \in Handlers |-> "idle"]
    /\ hId = [h \in Handlers |-> ""]
    /\ hCur = [h \in Handlers |-> NoMsg]
    /\ stream = [h \in Handlers |-> <<>>]
    /\ hStatus = [h \in Handlers |-> NoStatus]
    /\ closed = [h \in Handlers |-> FALSE]
    /\ sPc = [s \in Senders |-> "idle"]
    /\ sTo = [s \in Senders |-> ""]
    /\ sCh = [s \in Senders |-> NoChan]
    /\ sStatus = [s \in Senders |-> NoStatus]
    /\ sSawEntry = [s \in Senders |-> FALSE]
    /\ sBefore = [s \in Senders |-> {}]

\* the endpoint before main runs
ClientInit ==
    /\ role = ""
    /\ clientID = offerPeerID
    /\ mainPc = "start"
    /\ cur = NoEnvelope
    /\ offerReceived = FALSE
    /\ answerReceived = FALSE
    /\ candidateReceivedBeforeOfferOrAnswer = <<>>
    /\ replayIdx = 0
    /\ localSDP = ""
    /\ remoteCandidates = <<>>
    /\ localCandidates = <<>>
    /\ gathering = "idle"
    /\ listenerPc = "idle"
    /\ pushMsg = NoEnvelope
    /\ nDecoded = 0
    /\ subscriptions = 0
    /\ exited = FALSE
    /\ events = <<>>
    /\ received = <<>>

Init == RelayInit /\ ClientInit

\* --------------------------------------------------------- sendHandler
\* requests are numbered in arrival order
SendArrived(s) == IF s = 1 THEN TRUE ELSE sPc[s - 1] # "idle"

\* lines 39-46: decode the body; a body that does not parse is answered 400
SendDecode(s, to, parses) ==
    /\ sPc[s] = "idle"
    /\ SendArrived(s)
    /\ sBefore' = [sBefore EXCEPT ![s] = {t \in Senders : sStatus[t] = StatusOK}]
    /\ IF parses
       THEN /\ sPc' = [sPc EXCEPT ![s] = "lock"]
            /\ sTo' = [sTo EXCEPT ![s] = to]
            /\ sStatus' = sStatus
       ELSE /\ sPc' = [sPc EXCEPT ![s] = "done"]
            /\ sTo' = sTo
            /\ sStatus' = [sStatus EXCEPT ![s] = StatusBadRequest]
    /\ UNCHANGED <<messageStore, mu, hPc, hId, hCur, stream, hStatus, closed,
                   sCh, sSawEntry>>
    /\ UNCHANGED clientVars

\* a lookup that falls back to the first channel when the recipient has none
LookupOrFirst(to) == IF messageStore[to] # NoChan THEN messageStore[to] ELSE 1

\* line 51: ch, ok := messageStore[msg.To]
Lookup(to) == messageStore[to]

\* a deliver that unlocks before its send
ReleasedBeforeSend(s) == Free

\* lines 48-52: the holder of mu while sender s is in ch <- msg; the Unlock
\* is deferred, so it is s itself
HeldDuringSend(s) == s

\* lines 48-56: mu.Lock(); lookup; no entry: 404 and the deferred Unlock;
\* entry: the goroutine goes on to ch <- msg with mu held
SendLookup(s) ==
    /\ sPc[s] = "lock"
    /\ mu = Free
    /\ sSawEntry' = [sSawEntry EXCEPT ![s] = messageStore[sTo[s]] # NoChan]
    /\ IF Lookup(sTo[s]) # NoChan
       THEN /\ mu' = HeldDuringSend(s)
            /\ sCh' = [sCh EXCEPT ![s] = Lookup(sTo[s])]
            /\ sPc' = [sPc EXCEPT ![s] = "send"]
            /\ sStatus' = sStatus
       ELSE /\ mu' = Free
            /\ sCh' = sCh
            /\ sPc' = [sPc EXCEPT ![s] = "done"]
            /\ sStatus' = [sStatus EXCEPT ![s] = StatusNotFound]
    /\ UNCHANGED <<messageStore, hPc, hId, hCur, stream, hStatus, closed,
                   sTo, sBefore>>
    /\ UNCHANGED clientVars

\* ------------------------------------------------------ receiveHandler
RecvArrived(h) == IF h = 1 THEN TRUE ELSE hPc[h - 1] # "idle"

\* lines 59-65: an empty id is answered 400
RecvReject(h) ==
    /\ hPc[h] = "idle"
    /\ RecvArrived(h)
    /\ hPc' = [hPc EXCEPT ![h] = "done"]
    /\ hStatus' = [hStatus EXCEPT ![h] = StatusBadRequest]
    /\ UNCHANGED <<messageStore, mu, hId, hCur, stream, closed, sPc, sTo,
                   sCh, sStatus, sSawEntry, sBefore>>
    /\ UNCHANGED clientVars

\* an id test that lets every id through
IdNeverMissing(id) == FALSE

\* line 62: if clientID == ""
IdMissing(id) == id = ""

\* lines 61-72: a non-empty id; mu.Lock(); ch := make(chan);
\* messageStore[clientID] = ch; mu.Unlock()
RecvRegister(h, id) ==
    /\ hPc[h] = "idle"
    /\ RecvArrived(h)
    /\ ~IdMissing(id)
    /\ mu = Free
    /\ hId' = [hId EXCEPT ![h] = id]
    /\ messageStore' = [messageStore EXCEPT ![id] = h]
    /\ hPc' = [hPc EXCEPT ![h] = "select"]
    /\ UNCHANGED <<mu, hCur, stream, hStatus, closed, sPc, sTo, sCh,
                   sStatus, sSawEntry, sBefore>>
    /\ UNCHANGED clientVars

\* the senders blocked in ch <- msg on channel h
BlockedOn(h) == {s \in Senders : sPc[s] = "send" /\ sCh[s] = h}

\* line 85 with lines 52, 49, 57: the unbuffered handoff msg := <-ch; the
\* sender's ch <- msg returns, its deferred mu.Unlock() runs and it answers
\* with the implicit 200
RecvTake(h, s) ==
    /\ hPc[h] = "select"
    /\ s \in BlockedOn(h)
    /\ hCur' = [hCur EXCEPT ![h] = s]
    /\ hPc' = [hPc EXCEPT ![h] = "encode"]
    /\ mu' = Free
    /\ sPc' = [sPc EXCEPT ![s] = "done"]
    /\ sStatus' = [sStatus EXCEPT ![s] = StatusOK]
    /\ UNCHANGED <<messageStore, hId, stream, hStatus, closed, sTo, sCh,
                   sSawEntry, sBefore>>
    /\ UNCHANGED clientVars

\* a write that puts the envelope in front of what was written before
WrittenInFront(st, m) == <<m>> \o st

\* the response stream after json.NewEncoder(w).Encode(msg) succeeded
Written(st, m) == Append(st, m)

\* lines 90-97: Encode(msg) to the response; an error ends the handler
RecvEncode(h, ok) ==
    /\ hPc[h] = "encode"
    /\ IF ok
       THEN /\ stream' = [stream EXCEPT ![h] = Written(@, hCur[h])]
            /\ hStatus' = [hStatus EXCEPT ![h] =
                              IF @ = NoStatus THEN StatusOK ELSE @]
            /\ hPc' = [hPc EXCEPT ![h] = "select"]
       ELSE /\ stream' = stream
            /\ hStatus' = hStatus
            /\ hPc' = [hPc EXCEPT ![h] = "deferLock"]
    /\ hCur' = [hCur EXCEPT ![h] = NoMsg]
    /\ UNCHANGED <<messageStore, mu, hId, closed, sPc, sTo, sCh, sStatus,
                   sSawEntry, sBefore>>
    /\ UNCHANGED clientVars

\* lines 99-102: no message for 120 s; WriteHeader(204) sets the status
\* only when no header was written before
RecvTimeout(h) ==
    /\ hPc[h] = "select"
    /\ BlockedOn(h) = {}
    /\ hStatus' = [hStatus EXCEPT ![h] =
                      IF @ = NoStatus THEN StatusNoContent ELSE @]
    /\ hPc' = [hPc EXCEPT ![h] = "deferLock"]
    /\ UNCHANGED <<messageStore, mu, hId, hCur, stream, closed, sPc, sTo,
                   sCh, sStatus, sSawEntry, sBefore>>
    /\ UNCHANGED clientVars

\* lines 75-80: mu.Lock(); delete(messageStore, clientID); mu.Unlock();
\* close(ch). The close is taken in the same step as the delete: at the
\* Unlock no entry names ch (an entry under clientID is gone, and ch was
\* stored under no other key) and no sender is in ch <- msg (such a sender
\* would hold mu), so no other goroutine can reach ch between the Unlock
\* and the close
RecvDelete(h) ==
    /\ hPc[h] = "deferLock"
    /\ mu = Free
    /\ messageStore' = [messageStore EXCEPT ![hId[h]] = NoChan]
    /\ closed' = [closed EXCEPT ![h] = TRUE]
    /\ hPc' = [hPc EXCEPT ![h] = "done"]
    /\ UNCHANGED <<mu, hId, hCur, stream, hStatus, sPc, sTo, sCh,
                   sStatus, sSawEntry, sBefore>>
    /\ UNCHANGED clientVars

\* ------------------------------------------------------------- the relay
SenderStep(s) ==
    \/ \E to \in ReqIds, parses \in BOOLEAN : SendDecode(s, to, parses)
    \/ SendLookup(s)

HandlerStep(h) ==
    \/ RecvReject(h)
    \/ \E id \in ReqIds : RecvRegister(h, id)
    \/ \E s \in Senders : RecvTake(h, s)
    \/ \E ok \in BOOLEAN : RecvEncode(h, ok)
    \/ RecvTimeout(h)
    \/ RecvDelete(h)

Next ==
    \/ \E s \in Senders : SenderStep(s)
    \/ \E h \in Handlers : HandlerStep(h)

Spec == Init /\ [][Next]_vars

\* the scheduler runs every goroutine that can take a step, a goroutine
\* waiting in mu.Lock() gets the mutex if it is free again and again, and a
\* 120 s timer fires
FairSpec ==
    /\ Spec
    /\ \A s \in Senders : SF_vars(SendLookup(s))
    /\ \A h \in Handlers :
          /\ WF_vars(\E s \in Senders : RecvTake(h, s))
          /\ WF_vars(RecvEncode(h, TRUE) \/ RecvEncode(h, FALSE))
          /\ WF_vars(RecvTimeout(h))
          /\ SF_vars(RecvDelete(h))

\* =========================================================== the endpoint
\* a sendTo that names the endpoint itself
CounterpartSelf(r) == IF r = "offerer" THEN offerPeerID ELSE answerPeerID

\* the counterpart of the endpoint: lines 174-178, 207, 241
Counterpart(r) == IF r = "offerer" THEN answerPeerID ELSE offerPeerID

\* an entry of the history: an engine call or a POST /send
Event(by, op, type, content, to, ok) ==
    [by |-> by, op |-> op, type |-> type, content |-> content, to |-> to,
     from |-> clientID, ok |-> ok]

\* a step of main that logs the failure and goes on
MainCallGoesOn(ev, nextPc) ==
    /\ events' = Append(events, ev)
    /\ exited' = exited
    /\ mainPc' = nextPc

\* a step of main that calls the engine (ok: no error) or delivers (ok:
\* status 200); on failure os.Exit(1) / log.Fatalf
MainCall(ev, nextPc) ==
    /\ events' = Append(events, ev)
    /\ exited' = ~ev.ok
    /\ mainPc' = IF ev.ok THEN nextPc ELSE mainPc

\* lines 44-186: flags, role, go listenForSignaling, the peer connection and
\* its callbacks; an invalid role or a failed setup ends the process
MainStart(r, setupOk) ==
    /\ mainPc = "start"
    /\ ~exited
    /\ role' = r
    /\ IF r \notin Roles
       THEN /\ exited' = TRUE
            /\ UNCHANGED <<clientID, mainPc, listenerPc>>
       ELSE /\ clientID' = IF r = "answerer" THEN answerPeerID ELSE offerPeerID
            /\ listenerPc' = "get"
            /\ exited' = ~setupOk
            /\ mainPc' = IF r = "offerer" THEN "createOffer" ELSE "recv"
    /\ UNCHANGED <<cur, offerReceived, answerReceived,
                   candidateReceivedBeforeOfferOrAnswer, replayIdx, localSDP,
                   remoteCandidates, received, pushMsg, nDecoded,
                   subscriptions, cbVars, events>>
    /\ UNCHANGED relayVars

\* lines 189-193: CreateOffer
CreateOffer(ok, sdp) ==
    /\ mainPc = "createOffer"
    /\ ~exited
    /\ MainCall(Event("main", "CreateOffer", "offer", sdp, "", ok),
                "setLocalOffer")
    /\ localSDP' = IF ok THEN sdp ELSE localSDP
    /\ UNCHANGED <<role, clientID, cur, offerReceived, answerReceived,
                   candidateReceivedBeforeOfferOrAnswer, replayIdx,
                   remoteCandidates, received, listenVars, cbVars>>
    /\ UNCHANGED relayVars

\* lines 201-204: an empty offer SDP is not sent
OfferSendable(sdp) == sdp # ""

\* lines 194-204: SetLocalDescription(offer) starts the gathering; an empty
\* SDP ends the process
SetLocalOffer(ok) ==
    /\ mainPc = "setLocalOffer"
    /\ ~exited
    /\ events' = Append(events, Event("main", "SetLocalDescription", "offer",
                                      localSDP, "", ok))
    /\ exited' = (~ok \/ ~OfferSendable(localSDP))
    /\ mainPc' = IF ok /\ OfferSendable(localSDP) THEN "sendOffer" ELSE mainPc
    /\ gathering' = IF ok THEN "gathering" ELSE gathering
    /\ UNCHANGED <<role, clientID, cur, offerReceived, answerReceived,
                   candidateReceivedBeforeOfferOrAnswer, replayIdx, localSDP,
                   remoteCandidates, received, listenVars, localCandidates>>
    /\ UNCHANGED relayVars

\* lines 207, 294-318: sendSignal(offer.SDP, "offer", clientID, answerPeerID)
SendOffer(status) ==
    /\ mainPc = "sendOffer"
    /\ ~exited
    /\ MainCall(Event("main", "deliver", "offer", localSDP, answerPeerID,
                      status = StatusOK), "replay")
    /\ replayIdx' = 1
    /\ UNCHANGED <<role, clientID, cur, offerReceived, answerReceived,
                   candidateReceivedBeforeOfferOrAnswer, localSDP,
                   remoteCandidates, received, listenVars, cbVars>>
    /\ UNCHANGED relayVars

\* a range loop that walks the buffer from its end
ReplayItemReversed(buf, idx) == buf[Len(buf) + 1 - idx]

\* lines 209, 242: the element the range loop visits in its idx-th iteration
ReplayItem(buf, idx) == buf[idx]

\* lines 209-215 (offerer, after the offer) and 242-249 (answerer, after the
\* answer): one iteration of the range loop over the buffer, or its end;
\* line 249: offerReceived = true
ReplayStep(ok) ==
    /\ mainPc = "replay"
    /\ ~exited
    /\ IF replayIdx <= Len(candidateReceivedBeforeOfferOrAnswer)
       THEN /\ MainCall(Event("main", "AddICECandidate", "candidate",
                              ReplayItem(candidateReceivedBeforeOfferOrAnswer,
                                         replayIdx),
                              "", ok), "replay")
            /\ replayIdx' = replayIdx + 1
            /\ UNCHANGED <<offerReceived, cur>>
       ELSE /\ ok
            /\ mainPc' = "recv"
            /\ replayIdx' = 0
            /\ cur' = NoEnvelope
            /\ offerReceived' = (offerReceived \/ role = "answerer")
            /\ UNCHANGED <<events, exited>>
    /\ UNCHANGED <<role, clientID, answerReceived,
                   candidateReceivedBeforeOfferOrAnswer, localSDP,
                   remoteCandidates, received, listenVars, cbVars>>
    /\ UNCHANGED relayVars

\* an if-chain without the two buffering branches
\* an if-chain that does not test the role for an offer or an answer
BranchAnyRole(msg) ==
    IF msg.type = "offer" THEN "offer"
    ELSE IF msg.type = "candidate" /\ role = "answerer" /\ ~offerReceived
         THEN "buffer"
    ELSE IF msg.type = "answer" THEN "answer"
    ELSE IF msg.type = "candidate" /\ role = "offerer" /\ ~answerReceived
         THEN "buffer"
    ELSE IF msg.type = "candidate" THEN "apply"
    ELSE "ignore"

BranchNoBuffer(msg) ==
    IF msg.type = "offer" /\ role = "answerer" THEN "offer"
    ELSE IF msg.type = "answer" /\ role = "offerer" THEN "answer"
    ELSE IF msg.type = "candidate" THEN "apply"
    ELSE "ignore"

\* lines 220, 250, 259, 270, 278: the branch of the if-chain an envelope takes
Branch(msg) ==
    IF msg.type = "offer" /\ role = "answerer" THEN "offer"
    ELSE IF msg.type = "candidate" /\ role = "answerer" /\ ~offerReceived
         THEN "buffer"
    ELSE IF msg.type = "answer" /\ role = "offerer" THEN "answer"
    ELSE IF msg.type = "candidate" /\ role = "offerer" /\ ~answerReceived
         THEN "buffer"
    ELSE IF msg.type = "candidate" THEN "apply"
    ELSE "ignore"

\* where main goes after reading an envelope
BranchPc(b) ==
    CASE b = "offer" -> "setRemoteOffer"
      [] b = "answer" -> "setRemoteAnswer"
      [] b = "apply" -> "addCandidate"
      [] OTHER -> "recv"

\* lines 218-219 with line 362: answer := <-remoteSignal, the handoff from
\* listenForSignaling; lines 250-257, 270-277: a candidate that came before
\* the offer / answer is appended to the buffer
MainRecv ==
    /\ mainPc = "recv"
    /\ ~exited
    /\ listenerPc = "push"
    /\ listenerPc' = "decode"
    /\ pushMsg' = NoEnvelope
    /\ received' = Append(received, pushMsg)
    /\ mainPc' = BranchPc(Branch(pushMsg))
    /\ cur' = IF BranchPc(Branch(pushMsg)) = "recv" THEN NoEnvelope ELSE pushMsg
    /\ IF Branch(pushMsg) = "buffer"
       THEN /\ candidateReceivedBeforeOfferOrAnswer' =
                  Append(candidateReceivedBeforeOfferOrAnswer, pushMsg.content)
            /\ remoteCandidates' = Append(remoteCandidates, pushMsg.content)
       ELSE UNCHANGED <<candidateReceivedBeforeOfferOrAnswer, remoteCandidates>>
    /\ UNCHANGED <<role, clientID, offerReceived, answerReceived, replayIdx,
                   localSDP, nDecoded, subscriptions, cbVars, exited, events>>
    /\ UNCHANGED relayVars

\* lines 221-228: SetRemoteDescription(offer)
SetRemoteOffer(ok) ==
    /\ mainPc = "setRemoteOffer"
    /\ ~exited
    /\ MainCall(Event("main", "SetRemoteDescription", "offer", cur.content,
                      "", ok), "createAnswer")
    /\ UNCHANGED <<role, clientID, cur, offerReceived, answerReceived,
                   candidateReceivedBeforeOfferOrAnswer, replayIdx, localSDP,
                   remoteCandidates, received, listenVars, cbVars>>
    /\ UNCHANGED relayVars

\* lines 229-233: CreateAnswer
CreateAnswer(ok, sdp) ==
    /\ mainPc = "createAnswer"
    /\ ~exited
    /\ MainCall(Event("main", "CreateAnswer", "answer", sdp, "", ok),
                "setLocalAnswer")
    /\ localSDP' = IF ok THEN sdp ELSE localSDP
    /\ UNCHANGED <<role, clientID, cur, offerReceived, answerReceived,
                   candidateReceivedBeforeOfferOrAnswer, replayIdx,
                   remoteCandidates, received, listenVars, cbVars>>
    /\ UNCHANGED relayVars

\* lines 236-240: SetLocalDescription(answer) starts the gathering
SetLocalAnswer(ok) ==
    /\ mainPc = "setLocalAnswer"
    /\ ~exited
    /\ MainCall(Event("main", "SetLocalDescription", "answer", localSDP, "",
                      ok), "sendAnswer")
    /\ gathering' = IF ok /\ gathering = "idle" THEN "gathering" ELSE gathering
    /\ UNCHANGED <<role, clientID, cur, offerReceived, answerReceived,
                   candidateReceivedBeforeOfferOrAnswer, replayIdx, localSDP,
                   remoteCandidates, received, listenVars, localCandidates>>
    /\ UNCHANGED relayVars

\* lines 241, 294-318: sendSignal(answer.SDP, "answer", clientID, offerPeerID)
SendAnswer(status) ==
    /\ mainPc = "sendAnswer"
    /\ ~exited
    /\ MainCall(Event("main", "deliver", "answer", localSDP, offerPeerID,
                      status = StatusOK), "replay")
    /\ replayIdx' = 1
    /\ UNCHANGED <<role, clientID, cur, offerReceived, answerReceived,
                   candidateReceivedBeforeOfferOrAnswer, localSDP,
                   remoteCandidates, received, listenVars, cbVars>>
    /\ UNCHANGED relayVars

\* lines 259-269: SetRemoteDescription(answer); answerReceived = true
SetRemoteAnswer(ok) ==
    /\ mainPc = "setRemoteAnswer"
    /\ ~exited
    /\ MainCall(Event("main", "SetRemoteDescription", "answer", cur.content,
                      "", ok), "recv")
    /\ answerReceived' = (answerReceived \/ ok)
    /\ cur' = IF ok THEN NoEnvelope ELSE cur
    /\ UNCHANGED <<role, clientID, offerReceived,
                   candidateReceivedBeforeOfferOrAnswer, replayIdx, localSDP,
                   remoteCandidates, received, listenVars, cbVars>>
    /\ UNCHANGED relayVars

\* lines 278-289: AddICECandidate of a candidate that came after the
\* offer / answer
AddCandidate(ok) ==
    /\ mainPc = "addCandidate"
    /\ ~exited
    /\ MainCall(Event("main", "AddICECandidate", "candidate", cur.content,
                      "", ok), "recv")
    /\ remoteCandidates' = IF ok THEN Append(remoteCandidates, cur.content)
                           ELSE remoteCandidates
    /\ cur' = IF ok THEN NoEnvelope ELSE cur
    /\ UNCHANGED <<role, clientID, offerReceived, answerReceived,
                   candidateReceivedBeforeOfferOrAnswer, replayIdx, localSDP,
                   received, listenVars, cbVars>>
    /\ UNCHANGED relayVars

\* ------------------------------------------------- listenForSignaling
\* lines 343-349: GET /receive?id=clientID; an error ends the process
ListenGet(ok) ==
    /\ listenerPc = "get"
    /\ ~exited
    /\ subscriptions' = subscriptions + 1
    /\ listenerPc' = IF ok THEN "decode" ELSE listenerPc
    /\ exited' = ~ok
    /\ UNCHANGED <<negVars, pushMsg, nDecoded, cbVars, events>>
    /\ UNCHANGED relayVars

\* lines 352-365: the next envelope of the stream is decoded; a heartbeat is
\* logged, any other envelope goes to remoteSignal <- msg.  The n-th
\* envelope of the stream carries the content n.
ListenDecode(kind) ==
    /\ listenerPc = "decode"
    /\ ~exited
    /\ nDecoded < MaxEnvelopes
    /\ nDecoded' = nDecoded + 1
    /\ IF kind # "heartbeat"
       THEN /\ pushMsg' = [type |-> kind, content |-> nDecoded + 1]
            /\ listenerPc' = "push"
       ELSE UNCHANGED <<pushMsg, listenerPc>>
    /\ UNCHANGED <<negVars, subscriptions, cbVars, exited, events>>
    /\ UNCHANGED relayVars

\* lines 354-357, 367: Decode fails (the stream ended, by the idle timeout
\* or otherwise, or carried no JSON): break, and the function returns
ListenEnd ==
    /\ listenerPc = "decode"
    /\ ~exited
    /\ listenerPc' = "returned"
    /\ UNCHANGED <<negVars, pushMsg, nDecoded, subscriptions, cbVars, exited,
                   events>>
    /\ UNCHANGED relayVars

\* ------------------------------------------------------ OnICECandidate
\* lines 171-186, 320-340: the engine found a candidate; it is logged and
\* sent to the counterpart by sendICECandidate; a status other than 200 ends
\* the process.  The n-th local candidate carries the content n.
OnICECandidate(status) ==
    /\ gathering = "gathering"
    /\ ~exited
    /\ Len(localCandidates) < MaxLocalCandidates
    /\ localCandidates' = Append(localCandidates, Len(localCandidates) + 1)
    /\ events' = Append(events,
                        Event("callback", "deliver", "candidate",
                              Len(localCandidates) + 1, Counterpart(role),
                              status = StatusOK))
    /\ exited' = (status # StatusOK)
    /\ UNCHANGED <<negVars, listenVars, gathering>>
    /\ UNCHANGED relayVars

\* line 172: the callback with i == nil (the gathering is complete) does
\* nothing
OnICECandidateNil ==
    /\ gathering = "gathering"
    /\ ~exited
    /\ gathering' = "complete"
    /\ UNCHANGED <<negVars, listenVars, localCandidates, exited, events>>
    /\ UNCHANGED relayVars

\* ---------------------------------------------------------- the endpoint
\* the SDP the engine creates; the relay's answers to a POST /send
SDPs == {"", "sdp"}
Statuses == {StatusOK, StatusNotFound}

ClientNext ==
    \/ \E r \in Roles \cup {"other"}, ok \in BOOLEAN : MainStart(r, ok)
    \/ \E ok \in BOOLEAN, sdp \in SDPs : CreateOffer(ok, sdp)
    \/ \E ok \in BOOLEAN : SetLocalOffer(ok)
    \/ \E st \in Statuses : SendOffer(st)
    \/ \E ok \in BOOLEAN : ReplayStep(ok)
    \/ MainRecv
    \/ \E ok \in BOOLEAN : SetRemoteOffer(ok)
    \/ \E ok \in BOOLEAN, sdp \in SDPs : CreateAnswer(ok, sdp)
    \/ \E ok \in BOOLEAN : SetLocalAnswer(ok)
    \/ \E st \in Statuses : SendAnswer(st)
    \/ \E ok \in BOOLEAN : SetRemoteAnswer(ok)
    \/ \E ok \in BOOLEAN : AddCandidate(ok)
    \/ \E ok \in BOOLEAN : ListenGet(ok)
    \/ \E k \in Kinds : ListenDecode(k)
    \/ ListenEnd
    \/ \E st \in Statuses : OnICECandidate(st)
    \/ OnICECandidateNil

ClientSpec == Init /\ [][ClientNext]_vars

\* ================================================================ claims
Range(q) == {q[i] : i \in DOMAIN q}

\* the envelope kind that carries the remote description of role r
DescKind(r) == IF r = "answerer" THEN "offer" ELSE "answer"

IsCandidate(e) == e.type = "candidate"
IsAdd(e) == e.op = "AddICECandidate"
IsMain(e) == e.by = "main"

\* the contents of the candidates main received, in arrival order
ReceivedCandidates == SelectSeq(received, IsCandidate)
\* the AddICECandidate calls, in call order
AddCalls == SelectSeq(events, IsAdd)
\* the engine calls and delivers of the main goroutine, in order
MainEvents == SelectSeq(events, IsMain)

\* main has processed every envelope it read, and read exactly one envelope
\* carrying the remote description
SettledAfterOneDescription ==
    /\ role \in Roles
    /\ ~exited
    /\ mainPc = "recv"
    /\ Cardinality({i \in DOMAIN received :
                       received[i].type = DescKind(role)}) = 1

\* C1: once main has processed a sequence of envelopes that holds exactly one
\* offer (answerer) or answer (offerer), every candidate of the sequence was
\* handed to AddICECandidate exactly once, in arrival order
C1_EveryCandidateAppliedOnceInOrder ==
    SettledAfterOneDescription =>
        /\ Len(AddCalls) = Len(ReceivedCandidates)
        /\ \A i \in DOMAIN AddCalls :
              AddCalls[i].content = ReceivedCandidates[i].content

\* C2: every AddICECandidate call comes after a successful
\* SetLocalDescription and after a successful SetRemoteDescription of the
\* description the role receives
C2_CandidateAfterDescriptions ==
    \A i \in DOMAIN events :
        IsAdd(events[i]) =>
            /\ \E j \in 1 .. (i - 1) :
                  events[j].op = "SetLocalDescription" /\ events[j].ok
            /\ \E j \in 1 .. (i - 1) :
                  /\ events[j].op = "SetRemoteDescription"
                  /\ events[j].ok
                  /\ events[j].type = DescKind(role)

\* C2 witness: both roles' cases are reachable; here the answerer applied a
\* candidate that it had buffered before the offer
C2_Witness ==
    /\ role = "answerer"
    /\ \E i \in DOMAIN events :
          /\ IsAdd(events[i])
          /\ events[i].content \in Range(candidateReceivedBeforeOfferOrAnswer)

\* C2 second case: the offerer applied a candidate received after the answer
C2_OffererApplied ==
    /\ role = "offerer"
    /\ \E i \in DOMAIN events : IsAdd(events[i])

\* C3: a deliver that found no directory entry for its recipient is answered
\* 404, its envelope was handed to no subscription (it is in no stream and in
\* no handler's hands), and every directory entry is the channel of a receive
\* handler that registered under that peer id and has not yet removed it (no
\* deliver creates an entry)
C3_NoEntryMeansNotFound ==
    /\ \A s \in Senders :
          (sPc[s] = "done" /\ sStatus[s] # StatusBadRequest /\ ~sSawEntry[s]) =>
              /\ sStatus[s] = StatusNotFound
              /\ \A h \in Handlers : s \notin Range(stream[h]) /\ hCur[h] # s
    /\ \A p \in ReqIds :
          messageStore[p] # NoChan =>
              /\ hId[messageStore[p]] = p
              /\ hPc[messageStore[p]] \in {"select", "encode", "deferLock"}

\* C3 witness: a deliver was answered 404 after the subscription of its
\* recipient had ended and removed the entry
C3_Witness ==
    \E s \in Senders, h \in Handlers :
        /\ sPc[s] = "done"
        /\ sStatus[s] = StatusNotFound
        /\ hId[h] = sTo[s]
        /\ closed[h]

\* C4: a deliver that found an entry and waits in the handoff eventually
\* returns
C4_DeliverCompletes ==
    \A s \in Senders : (sPc[s] = "send") ~> (sPc[s] = "done")

\* C5: every envelope whose deliver was answered 200 is in the stream of a
\* subscription, or in the hands of a receive handler that is about to write
\* it
C5_NoSilentDrop ==
    \A s \in Senders :
        sStatus[s] = StatusOK =>
            \E h \in Handlers : s \in Range(stream[h]) \/ hCur[h] = s

\* C6: on each subscription stream no envelope is written twice, and an
\* envelope B is written only after every envelope A that went to the same
\* inbox and whose deliver had returned 200 before the deliver of B started
C6_StreamFIFO ==
    \A h \in Handlers :
        /\ \A i, j \in DOMAIN stream[h] :
              stream[h][i] = stream[h][j] => i = j
        /\ \A j \in DOMAIN stream[h] :
              \A a \in sBefore[stream[h][j]] :
                  sCh[a] = h => \E i \in 1 .. (j - 1) : stream[h][i] = a

\* C6 witness: a stream carries two envelopes, the first delivered before
\* the deliver of the second started
C6_Witness ==
    \E h \in Handlers :
        /\ Len(stream[h]) >= 2
        /\ stream[h][1] \in sBefore[stream[h][2]]

\* C7: a receive handler whose stream ended eventually removes its entry and
\* returns
C7_EndedStreamRemovesEntry ==
    \A h \in Handlers :
        (hPc[h] = "deferLock") ~> (hPc[h] = "done" /\ messageStore[hId[h]] # h)

\* C8: when the decode loop of listenForSignaling ends, the listener goes
\* back to GET /receive
C8_ListenerResubscribes ==
    [][(listenerPc = "decode" /\ listenerPc' \notin {"decode", "push"})
          => listenerPc' = "get"]_vars

\* the replay of the k-th buffered candidate, as an entry of the history
IsReplayOf(e, k) ==
    /\ IsAdd(e)
    /\ k \in DOMAIN candidateReceivedBeforeOfferOrAnswer
    /\ e.content = candidateReceivedBeforeOfferOrAnswer[k]

\* the n-th offer main received
NthOffer(n) == SelectSeq(received, LAMBDA e : e.type = "offer")[n]
SetRemoteCount(m, i) ==
    Cardinality({j \in 1 .. i : m[j].op = "SetRemoteDescription"})

\* C9: in the answerer's main goroutine: SetRemoteDescription takes the
\* payload of the offer; CreateAnswer directly follows a successful
\* SetRemoteDescription, SetLocalDescription(answer) a successful
\* CreateAnswer, the deliver of the answer (to the offerer, from the
\* answerer, with the created SDP) a successful SetLocalDescription; the
\* replay of the first buffered candidate directly follows the 200 of that
\* deliver and the replay of the k-th the replay of the (k-1)-th
C9_AnswererOrder ==
    role = "answerer" =>
        LET m == MainEvents
        IN \A i \in DOMAIN m :
              /\ m[i].op = "SetRemoteDescription" =>
                    /\ m[i].type = "offer"
                    /\ m[i].content = NthOffer(SetRemoteCount(m, i)).content
              /\ m[i].op = "CreateAnswer" =>
                    /\ i > 1
                    /\ m[i - 1].op = "SetRemoteDescription"
                    /\ m[i - 1].ok
              /\ m[i].op = "SetLocalDescription" =>
                    /\ i > 1
                    /\ m[i - 1].op = "CreateAnswer"
                    /\ m[i - 1].ok
                    /\ m[i].type = "answer"
                    /\ m[i].content = m[i - 1].content
              /\ m[i].op = "deliver" =>
                    /\ i > 1
                    /\ m[i - 1].op = "SetLocalDescription"
                    /\ m[i - 1].ok
                    /\ m[i].type = "answer"
                    /\ m[i].content = m[i - 1].content
                    /\ m[i].to = offerPeerID
                    /\ m[i].from = answerPeerID
              /\ \A k \in DOMAIN candidateReceivedBeforeOfferOrAnswer :
                    IsReplayOf(m[i], k) =>
                        /\ i > 1
                        /\ m[i - 1].ok
                        /\ IF k = 1
                           THEN m[i - 1].op = "deliver"
                           ELSE IsReplayOf(m[i - 1], k - 1)

\* C9 witness: the answerer buffered two candidates, then processed the
\* offer and replayed both
C9_Witness ==
    /\ role = "answerer"
    /\ offerReceived
    /\ Len(candidateReceivedBeforeOfferOrAnswer) = 2
    /\ Len(AddCalls) = 2

\* C10: an offer or answer envelope that main reads is acted on (main leaves
\* the receive) only by the answerer before any offer was processed, or by
\* the offerer before any answer was processed
C10_DescriptionOnlyInPhase ==
    [][(/\ mainPc = "recv"
        /\ listenerPc = "push"
        /\ listenerPc' = "decode"
        /\ pushMsg.type \in {"offer", "answer"}
        /\ mainPc' # "recv")
          => \/ pushMsg.type = "offer" /\ role = "answerer" /\ ~offerReceived
             \/ pushMsg.type = "answer" /\ role = "offerer" /\ ~answerReceived
      ]_vars

\* once the process has ended, main reads no envelope and the endpoint makes
\* no engine call and no deliver
NothingAfterExit ==
    exited => (exited' /\ received' = received /\ events' = events)

\* C11: a deliver of the endpoint (offer, answer or local candidate) that is
\* not answered 200 ends the process: it is the last entry of the history
\* (no retry, no further engine call or deliver), and after the end main
\* reads no further envelope
C11_FailedDeliverTerminates ==
    /\ [](\A i \in DOMAIN events :
             (events[i].op = "deliver" /\ ~events[i].ok) =>
                 (exited /\ i = Len(events)))
    /\ [][NothingAfterExit]_vars

\* C11 witness: the offerer's offer was answered 404 and the process ended
C11_Witness ==
    /\ exited
    /\ role = "offerer"
    /\ Len(events) > 0
    /\ events[Len(events)].op = "deliver"
    /\ events[Len(events)].type = "offer"
    /\ ~events[Len(events)].ok

\* C11 second case: a local candidate was answered 404 and the process ended
C11_CandidateRefused ==
    /\ exited
    /\ Len(events) > 0
    /\ events[Len(events)].by = "callback"
    /\ ~events[Len(events)].ok

\* C12: a subscribe with an empty id is answered 400 and creates no entry;
\* the directory never holds an entry under the empty id; a deliver whose
\* recipient is empty is never handed to a channel and, once its body was
\* decoded, is answered 404
C12_NoEntryUnderEmptyId ==
    /\ messageStore[""] = NoChan
    /\ \A h \in Handlers :
          hStatus[h] = StatusBadRequest =>
              /\ hId[h] = ""
              /\ hPc[h] = "done"
              /\ ~closed[h]
              /\ \A id \in ReqIds : messageStore[id] # h
    /\ \A h \in Handlers : hPc[h] \notin {"idle", "done"} => hId[h] # ""
    /\ \A s \in Senders :
          sTo[s] = "" =>
              /\ sPc[s] # "send"
              /\ sStatus[s] \in {NoStatus, StatusBadRequest, StatusNotFound}
              /\ (sPc[s] = "done" /\ sStatus[s] # StatusBadRequest) =>
                     sStatus[s] = StatusNotFound

\* C12 witness: an empty-id subscribe was answered 400, another subscription
\* is registered, and a decoded deliver to the empty id was answered 404
C12_Witness ==
    /\ \E h \in Handlers : hStatus[h] = StatusBadRequest
    /\ \E id \in ReqIds : messageStore[id] # NoChan
    /\ \E s \in Senders :
          sPc[s] = "done" /\ sTo[s] = "" /\ sStatus[s] = StatusNotFound

\* C13: every offer and every answer the endpoint delivers has a non-empty
\* payload
C13_DescriptionsNonEmpty ==
    \A i \in DOMAIN events :
        (events[i].op = "deliver" /\ events[i].type \in {"offer", "answer"})
            => events[i].content # ""

\* C13, the offerer's half: no offer with an empty payload is delivered
C13_OffersNonEmpty ==
    \A i \in DOMAIN events :
        (events[i].op = "deliver" /\ events[i].type = "offer")
            => events[i].content # ""

\* the step by which handler h leaves its select through the 120 s timer
\* (an Encode failure leaves from "encode", not from "select")
EndsByTimeout(h) == hPc[h] = "select" /\ hPc'[h] = "deferLock"

\* C14: every stream that ends by the idle timeout ends with the response
\* status 204, whether or not envelopes were written on it before
C14_TimeoutEndsWith204 ==
    [][\A h \in Handlers :
          EndsByTimeout(h) => hStatus'[h] = StatusNoContent]_vars

\* C14 restricted to the streams on which nothing was written: these end
\* with 204
C14_EmptyStreamEndsWith204 ==
    [][\A h \in Handlers :
          (EndsByTimeout(h) /\ stream[h] = <<>>)
              => hStatus'[h] = StatusNoContent]_vars

\* C15: while a deliver is suspended in its handoff, the directory can be
\* taken: a subscribe of any peer can register, a deliver to another
\* recipient can look up, and an ending subscription can remove its entry
C15_DirectoryFreeDuringHandoff ==
    \A s \in Senders :
        sPc[s] = "send" =>
            /\ \A h \in Handlers :
                  (hPc[h] = "idle" /\ RecvArrived(h)) =>
                      \A id \in PeerIds : ENABLED RecvRegister(h, id)
            /\ \A t \in Senders :
                  (sPc[t] = "lock" /\ sTo[t] # sTo[s]) => ENABLED SendLookup(t)
            /\ \A h \in Handlers :
                  hPc[h] = "deferLock" => ENABLED RecvDelete(h)

\* C16: once the remote description was applied and the buffered candidates
\* were replayed (offerReceived for the answerer, answerReceived for the
\* offerer), the buffer of candidates is empty
C16_BufferEmptyOnceNegotiated ==
    (offerReceived \/ answerReceived) =>
        candidateReceivedBeforeOfferOrAnswer = <<>>

\* the delivers made by the OnICECandidate callback, in order
CallbackDelivers == SelectSeq(events, LAMBDA e : e.by = "callback")

\* C17: every candidate the engine discovers locally is delivered exactly
\* once, as a candidate envelope from the endpoint's own id to the fixed
\* counterpart of its role, whatever the phase of the negotiation; main
\* delivers no candidate
C17_LocalCandidateDeliveredOnce ==
    /\ Len(CallbackDelivers) = Len(localCandidates)
    /\ \A i \in DOMAIN CallbackDelivers :
          /\ CallbackDelivers[i].op = "deliver"
          /\ CallbackDelivers[i].type = "candidate"
          /\ CallbackDelivers[i].content = localCandidates[i]
          /\ role \in Roles
          /\ CallbackDelivers[i].from =
                 (IF role = "offerer" THEN offerPeerID ELSE answerPeerID)
          /\ CallbackDelivers[i].to =
                 (IF role = "offerer" THEN answerPeerID ELSE offerPeerID)
    /\ \A i \in DOMAIN events :
          (events[i].op = "deliver" /\ events[i].type = "candidate")
              => events[i].by = "callback"

\* C17 witness: the offerer's local candidate was delivered before its offer
C17_Witness ==
    \E i, j \in DOMAIN events :
        /\ i < j
        /\ events[i].by = "callback"
        /\ events[i].ok
        /\ events[j].by = "main"
        /\ events[j].op = "deliver"
        /\ events[j].type = "offer"

\* C17 second case: the answerer's local candidate was delivered before its
\* answer
C17_BeforeAnswer ==
    \E i, j \in DOMAIN events :
        /\ i < j
        /\ events[i].by = "callback"
        /\ events[i].ok
        /\ events[j].by = "main"
        /\ events[j].op = "deliver"
        /\ events[j].type = "answer"

\* the calls of the connectivity engine that main makes
EngineOps == {"CreateOffer", "CreateAnswer", "SetLocalDescription",
              "SetRemoteDescription", "AddICECandidate"}

\* C18: a call of the engine that returns an error ends the process: it is
\* the last entry of the history (no retry, no further call or deliver), and
\* after the end main reads no further envelope
C18_EngineFailureTerminates ==
    /\ [](\A i \in DOMAIN events :
             (events[i].op \in EngineOps /\ ~events[i].ok) =>
                 (exited /\ i = Len(events) /\ events[i].by = "main"))
    /\ [][exited => UNCHANGED <<events, received, mainPc, exited>>]_vars

\* C18 witness: AddICECandidate returned an error for a received candidate
\* and the process ended
C18_Witness ==
    /\ exited
    /\ Len(events) > 0
    /\ events[Len(events)].op = "AddICECandidate"
    /\ ~events[Len(events)].ok
    /\ Len(received) > 0

\* main is about to read, from its listener, an envelope whose kind does not
\* belong to its role: an offer at the offerer, an answer at the answerer
ReadsForeignKind ==
    /\ mainPc = "recv"
    /\ listenerPc = "push"
    /\ Len(received') = Len(received) + 1
    /\ \/ pushMsg.type = "offer" /\ role = "offerer"
       \/ pushMsg.type = "answer" /\ role = "answerer"

\* C19: an envelope whose kind does not belong to the role is ignored: main
\* goes back to waiting with no engine call and no deliver, and the
\* offer/answer-received flags and the buffer of candidates are unchanged;
\* so the offerer never applies an offer and the answerer never an answer
C19_ForeignKindIgnored ==
    /\ [][ReadsForeignKind =>
             /\ mainPc' = "recv"
             /\ cur' = NoEnvelope
             /\ UNCHANGED <<events, offerReceived, answerReceived,
                            candidateReceivedBeforeOfferOrAnswer,
                            remoteCandidates, exited>>]_vars
    /\ [](\A i \in DOMAIN events :
             events[i].op = "SetRemoteDescription" =>
                 events[i].type = DescKind(role))

\* C19 witness: the offerer has read an offer envelope and waits again
C19_Witness ==
    /\ role = "offerer"
    /\ ~exited
    /\ mainPc = "recv"
    /\ Len(received) > 0
    /\ received[Len(received)].type = "offer"

\* C19 second case: the answerer has read an answer envelope and waits again
C19_AnswerAtAnswerer ==
    /\ role = "answerer"
    /\ ~exited
    /\ mainPc = "recv"
    /\ Len(received) > 0
    /\ received[Len(received)].type = "answer"

\* C20: no deliver sends on a closed channel: a sender in its handoff is on
\* an open channel, no directory entry names a closed channel, and a channel
\* is closed only by its own handler, at its end, when neither an entry
\* names it nor a sender is blocked on it
C20_NoSendOnClosedChannel ==
    /\ \A s \in Senders :
          sPc[s] = "send" => (sCh[s] \in Handlers /\ ~closed[sCh[s]])
    /\ \A id \in ReqIds :
          messageStore[id] # NoChan => ~closed[messageStore[id]]
    /\ \A h \in Handlers :
          closed[h] =>
              /\ hPc[h] = "done"
              /\ BlockedOn(h) = {}
              /\ \A id \in ReqIds : messageStore[id] # h

\* C20 witness: a peer subscribed twice; the channel of one subscription is
\* closed while a deliver to that peer is in its handoff on the channel of
\* the other
C20_Witness ==
    \E h1, h2 \in Handlers, s \in Senders :
        /\ h1 # h2
        /\ hId[h1] = hId[h2]
        /\ closed[h1]
        /\ sPc[s] = "send"
        /\ sCh[s] = h2
        /\ sTo[s] = hId[h1]

\* the stream of handler h is open: it is registered and has not left its
\* loop
StreamOpen(h) == hPc[h] \in {"select", "encode"}

\* a subscribe for the id of h was made after the one of h (handlers
\* register in the order of their numbers)
LaterSubscribe(h) ==
    \E h2 \in Handlers : h2 > h /\ hPc[h2] # "idle" /\ hId[h2] = hId[h]

\* C21: while a stream is open and no later subscribe was made for its id,
\* the directory entry of that id names the channel of this stream; the end
\* of an earlier, superseded stream does not remove it
C21_OpenStreamKeepsEntry ==
    \A h \in Handlers :
        (StreamOpen(h) /\ ~LaterSubscribe(h)) => messageStore[hId[h]] = h

\* C21 restricted to the streams whose id no earlier subscription used:
\* their entry stays
C21_OnlySubscriptionKeepsEntry ==
    \A h \in Handlers :
        (/\ StreamOpen(h)
         /\ ~LaterSubscribe(h)
         /\ \A h1 \in Handlers : (h1 < h) => hId[h1] # hId[h])
            => messageStore[hId[h]] = h

====
